---- MODULE Spec2Model ----
(***************************************************************************)
(* Model of the Slack file-upload pipeline of the cdn bot                  *)
(* (handleFileUpload and its helpers) as a state machine.  Every `await`   *)
(* of the source is a suspension point; one action resumes one handler     *)
(* from one await and runs it, synchronously, up to its next await or its  *)
(* return.                                                                 *)
(***************************************************************************)
EXTENDS Integers, Sequences, FiniteSets, TLC

(***************************************************************************)
(* Bounds of the scenarios.                                                *)
(***************************************************************************)
\* Spec: concurrent events, every fault allowed
NumEvents == 2
MaxFiles == 1
MaxFaults == 2
\* SpecBatch: one event, longer batches
BatchMaxFiles == 3
\* SpecLimiter: more events than limiter slots, distinct messages
LimiterEvents == 4
\* SpecApi: concurrent requests to the single-URL endpoint
NumRequests == 2

(***************************************************************************)
(* Program constants.  Sizes are counted in KiB (2 GiB in bytes does not   *)
(* fit the model checker's integers); times are in ms.                     *)
(***************************************************************************)
MAX_FILE_SIZE == 2 * 1024 * 1024
CONCURRENT_UPLOADS == 3
DAY_MS == 24 * 60 * 60 * 1000

\* Date.now(), counted from an arbitrary origin two days back
Now == 2 * DAY_MS

\* event_ts values (seconds): 24h and 1s old, exactly 24h old, current
OldTs == (Now - DAY_MS) \div 1000 - 1
EdgeTs == (Now - DAY_MS) \div 1000
FreshTs == Now \div 1000

NoMsg == [ts |-> 0, files |-> << >>]
NoError == "none"
Unlimited == 0 - 1

VARIABLES
    cfg,                \* the scenario: what the environment may deliver
    faultsLeft,         \* faults the environment may still inject
    processedMessages,  \* keys of the Map processedMessages
    uploadLimit,        \* the limiter [defined, active, queue]
    pc,                 \* per call of handleFileUpload: the await it is at
    event,              \* per call: the event it was given
    messageTs,          \* findFileMessage: ts of the first share
    fileMessage,        \* handleFileUpload: fileMessage (NoMsg = null)
    reactionAdded,      \* handleFileUpload: reactionAdded
    idx,                \* processFiles: position of the for loop
    uploadedFiles,      \* processFiles: uploadedFiles (files by position)
    failedFiles,        \* processFiles: failedFiles (files by position)
    error,              \* the exception caught at line 217
    result,             \* how the call ended: pending, returned, raised
    calls,              \* per call: the external calls it made, in order
    req                 \* per call of handleUpload (api/upload.js): its locals

vars == << cfg, faultsLeft, processedMessages, uploadLimit, pc, event,
           messageTs, fileMessage, reactionAdded, idx, uploadedFiles,
           failedFiles, error, result, calls, req >>

\* the state of the Slack pipeline
botVars == << cfg, faultsLeft, processedMessages, uploadLimit, pc, event,
              messageTs, fileMessage, reactionAdded, idx, uploadedFiles,
              failedFiles, error, result, calls >>

Handlers == DOMAIN pc

(***************************************************************************)
(* Pure helpers.                                                           *)
(***************************************************************************)
isMessageTooOldSwapped(eventTs) ==
    LET eventTime == eventTs * 1000
    IN  (eventTime - Now) > DAY_MS

isMessageTooOld(eventTs) ==
    LET eventTime == eventTs * 1000
    IN  (Now - eventTime) > DAY_MS

isMessageProcessedNever(messageTsKey) == FALSE

isMessageProcessed(messageTsKey) == messageTsKey \in processedMessages

markMessageAsProcessingForgets(messageTsKey) == processedMessages

markMessageAsProcessing(messageTsKey) == processedMessages \cup {messageTsKey}

\* if (file.size > MAX_FILE_SIZE)
tooLargeNever(file) == FALSE

tooLarge(file) == file.size > MAX_FILE_SIZE

\* file sizes: the largest size accepted, and the smallest one refused
FileSizes == {MAX_FILE_SIZE, MAX_FILE_SIZE + 1}

RECURSIVE FileLists(_)
FileLists(n) ==
    IF n = 0 THEN { << >> }
    ELSE LET shorter == FileLists(n - 1)
         IN  shorter \cup
             { Append(fl, [size |-> s]) : fl \in { l \in shorter : Len(l) = n - 1 },
                                          s \in FileSizes }

LastCall(h) == calls[h][Len(calls[h])]

\* a call is logged when it is issued and its outcome filled in when it settles
Issue(log, api, arg) == Append(log, [api |-> api, arg |-> arg, res |-> "pending"])
Settle(log, res) == [log EXCEPT ![Len(log)].res = res]

Spend(o) == IF o = "ok" \/ faultsLeft = Unlimited THEN faultsLeft ELSE faultsLeft - 1
\* every way each external call can settle
Outcomes ==
    [files_info |-> {"ok", "not_ok", "no_share", "throws"},
     history |-> {"ok", "not_ok", "empty", "throws"},
     add_processing |-> {"ok", "throws"},
     fetch |-> {"ok", "not_ok", "throws"},
     buffer |-> {"ok", "throws"},
     upload |-> {"ok", "falsy", "fail_object", "throws"},
     post |-> {"ok", "throws"},
     update_remove |-> {"ok", "throws"},
     update_add |-> {"ok", "throws"},
     error_remove |-> {"ok", "no_reaction", "platform_error", "no_data"},
     error_add |-> {"ok", "throws"}]

\* the ways the call a handler waits for may settle in this scenario
Allowed(h) ==
    IF faultsLeft = 0 \/ pc[h] \notin cfg.faulty \/ h \notin cfg.unlucky
    THEN {"ok"}
    ELSE Outcomes[pc[h]]

(***************************************************************************)
(* processFiles: the for loop between two awaits.                          *)
(***************************************************************************)
\* failedFiles.push(file.name)
PushFailedLost(failed, i) == failed

PushFailed(failed, i) == Append(failed, i)

\* uploadedFiles.push({name, url, contentType})
PushUploadedFront(uploaded, i) == << i >> \o uploaded
PushUploadedLost(uploaded, i) == uploaded

PushUploaded(uploaded, i) == Append(uploaded, i)

\* lines 49-54: oversized files are failed without any await
SkipOversizedLeavesLoop(files, i, failed) ==
    [i |-> Len(files) + 1, failed |-> failed]

RECURSIVE SkipOversized(_, _, _)
SkipOversized(files, i, failed) ==
    IF i > Len(files) THEN [i |-> i, failed |-> failed]
    ELSE IF tooLarge(files[i])
         THEN SkipOversized(files, i + 1, PushFailed(failed, i))
         ELSE [i |-> i, failed |-> failed]

\* The loop from position i up to its next await: the fetch of the next file
\* that is not oversized or, past the last file, the return of processFiles
\* and the chat.postMessage of sendResultsMessage.
LoopFrom(files, i, uploaded, failed, log) ==
    LET r == SkipOversized(files, i, failed)
    IN  IF r.i > Len(files)
        THEN [pc |-> "post", idx |-> r.i, uploaded |-> uploaded,
              failed |-> r.failed,
              log |-> Issue(log, "chat.postMessage", Len(uploaded))]
        ELSE [pc |-> "fetch", idx |-> r.i, uploaded |-> uploaded,
              failed |-> r.failed, log |-> Issue(log, "fetch", r.i)]

\* the catch of lines 78-81, then the next iteration
FileFailed(h, log) ==
    LoopFrom(fileMessage[h].files, idx[h] + 1, uploadedFiles[h],
             PushFailed(failedFiles[h], idx[h]), log)

(***************************************************************************)
(* The limiter made by pLimit(CONCURRENT_UPLOADS).                         *)
(***************************************************************************)
HasSlotAlways(limit) == TRUE

HasSlot(limit) == Cardinality(limit.active) < CONCURRENT_UPLOADS

\* if (!success) throw new Error('Upload failed')
Truthy(o) == o \in {"ok", "fail_object"}

(***************************************************************************)
(* Initial states.                                                         *)
(***************************************************************************)
InitWith(n, c, f) ==
    /\ cfg = c
    /\ faultsLeft = f
    /\ processedMessages = {}
    /\ uploadLimit = [defined |-> FALSE, active |-> {}, queue |-> << >>]
    /\ pc = [h \in 1..n |-> "idle"]
    /\ event = [h \in 1..n |-> [event_ts |-> 0]]
    /\ messageTs = [h \in 1..n |-> 0]
    /\ fileMessage = [h \in 1..n |-> NoMsg]
    /\ reactionAdded = [h \in 1..n |-> FALSE]
    /\ idx = [h \in 1..n |-> 0]
    /\ uploadedFiles = [h \in 1..n |-> << >>]
    /\ failedFiles = [h \in 1..n |-> << >>]
    /\ error = [h \in 1..n |-> NoError]
    /\ result = [h \in 1..n |-> "pending"]
    /\ calls = [h \in 1..n |-> << >>]

\* two or more events (possibly for the same message), a bounded number of
\* injected faults, initialize() before the first event
Init ==
    /\ InitWith(NumEvents,
                [eventTimes |-> {OldTs, EdgeTs},
                 shareTs |-> [h \in 1..NumEvents |-> {1}],
                 faulty |-> DOMAIN Outcomes,
                 unlucky |-> 1..NumEvents,
                 fileLists |-> { fl \in FileLists(MaxFiles) :
                                   \A i \in 1..Len(fl) : ~tooLarge(fl[i]) },
                 early |-> FALSE],
                MaxFaults)
    /\ req = << >>

\* one event, batches of every shape, any number of faults, initialize()
\* before or after the event
InitBatch ==
    /\ InitWith(1,
                [eventTimes |-> {OldTs, EdgeTs, FreshTs},
                 shareTs |-> [h \in 1..1 |-> {1}],
                 faulty |-> DOMAIN Outcomes,
                 unlucky |-> {1},
                 fileLists |-> FileLists(BatchMaxFiles),
                 early |-> TRUE],
                Unlimited)
    /\ req = << >>

\* more events than the limiter has slots, each for a message of its own
\* with one file; the uploads and the summary message of the first event
\* may fail
InitLimiter ==
    /\ InitWith(LimiterEvents,
                [eventTimes |-> {FreshTs},
                 shareTs |-> [h \in 1..LimiterEvents |-> {h}],
                 faulty |-> {"upload", "post"},
                 unlucky |-> {1},
                 fileLists |-> { << [size |-> MAX_FILE_SIZE] >> },
                 early |-> FALSE],
                Unlimited)
    /\ req = << >>

(***************************************************************************)
(* Actions.                                                                *)
(***************************************************************************)
\* initialize()
Initialize ==
    /\ ~uploadLimit.defined
    /\ uploadLimit' = [defined |-> TRUE, active |-> {}, queue |-> << >>]
    /\ UNCHANGED << req, cfg, faultsLeft, processedMessages, pc, event, messageTs,
                    fileMessage, reactionAdded, idx, uploadedFiles,
                    failedFiles, error, result, calls >>

\* handleFileUpload(event, client) up to its first await
Start(h) ==
    /\ pc[h] = "idle"
    /\ \A g \in Handlers : g < h => pc[g] # "idle"
    /\ cfg.early \/ uploadLimit.defined
    /\ \E e \in cfg.eventTimes :
        /\ event' = [event EXCEPT ![h] = [event_ts |-> e]]
        /\ IF isMessageTooOld(e)
           THEN /\ pc' = [pc EXCEPT ![h] = "done"]
                /\ result' = [result EXCEPT ![h] = "returned"]
                /\ calls' = calls
           ELSE /\ pc' = [pc EXCEPT ![h] = "files_info"]
                /\ result' = result
                /\ calls' = [calls EXCEPT ![h] = Issue(@, "files.info", 0)]
    /\ UNCHANGED << req, cfg, faultsLeft, processedMessages, uploadLimit, messageTs,
                    fileMessage, reactionAdded, idx, uploadedFiles,
                    failedFiles, error >>

\* findFileMessage resumes from client.files.info
FilesInfoDone(h) ==
    /\ pc[h] = "files_info"
    /\ \E o \in Allowed(h) :
        /\ faultsLeft' = Spend(o)
        /\ IF o = "ok"
           THEN \E t \in cfg.shareTs[h] :
                /\ messageTs' = [messageTs EXCEPT ![h] = t]
                /\ pc' = [pc EXCEPT ![h] = "history"]
                /\ result' = result
                /\ calls' = [calls EXCEPT ![h] =
                        Issue(Settle(@, o), "conversations.history", t)]
           ELSE \* findFileMessage returns null, handleFileUpload returns
                /\ messageTs' = messageTs
                /\ pc' = [pc EXCEPT ![h] = "done"]
                /\ result' = [result EXCEPT ![h] = "returned"]
                /\ calls' = [calls EXCEPT ![h] = Settle(@, o)]
    /\ UNCHANGED << req, cfg, processedMessages, uploadLimit, event, fileMessage,
                    reactionAdded, idx, uploadedFiles, failedFiles, error >>

\* if (!fileMessage || isMessageProcessed(fileMessage.ts)) return;
ShouldReturnNullUnchecked(msg) == isMessageProcessed(msg.ts)

ShouldReturn(msg) == msg = NoMsg \/ isMessageProcessed(msg.ts)

\* findFileMessage resumes from client.conversations.history and returns;
\* handleFileUpload goes on to lines 207-210 without another await
HistoryDone(h) ==
    /\ pc[h] = "history"
    /\ \E o \in Allowed(h) :
       \E fl \in (IF o = "ok" THEN cfg.fileLists ELSE { << >> }) :
        LET msg == IF o = "ok" THEN [ts |-> messageTs[h], files |-> fl]
                   ELSE NoMsg
        IN  /\ faultsLeft' = Spend(o)
            /\ fileMessage' = [fileMessage EXCEPT ![h] = msg]
            /\ IF ShouldReturn(msg)
               THEN /\ pc' = [pc EXCEPT ![h] = "done"]
                    /\ result' = [result EXCEPT ![h] = "returned"]
                    /\ calls' = [calls EXCEPT ![h] = Settle(@, o)]
                    /\ processedMessages' = processedMessages
               ELSE /\ processedMessages' = markMessageAsProcessing(msg.ts)
                    /\ pc' = [pc EXCEPT ![h] = "add_processing"]
                    /\ result' = result
                    /\ calls' = [calls EXCEPT ![h] =
                            Issue(Settle(@, o), "reactions.add", "beachball")]
    /\ UNCHANGED << req, cfg, uploadLimit, event, messageTs, reactionAdded, idx,
                    uploadedFiles, failedFiles, error >>

\* addProcessingReaction resumes and returns (its catch swallows a failure);
\* reactionAdded = true; processFiles runs up to its first await
AddProcessingDone(h) ==
    /\ pc[h] = "add_processing"
    /\ \E o \in Allowed(h) :
        LET c == LoopFrom(fileMessage[h].files, 1, << >>, << >>,
                          Settle(calls[h], o))
        IN  /\ faultsLeft' = Spend(o)
            /\ reactionAdded' = [reactionAdded EXCEPT ![h] = TRUE]
            /\ pc' = [pc EXCEPT ![h] = c.pc]
            /\ idx' = [idx EXCEPT ![h] = c.idx]
            /\ uploadedFiles' = [uploadedFiles EXCEPT ![h] = c.uploaded]
            /\ failedFiles' = [failedFiles EXCEPT ![h] = c.failed]
            /\ calls' = [calls EXCEPT ![h] = c.log]
    /\ UNCHANGED << req, cfg, processedMessages, uploadLimit, event, messageTs,
                    fileMessage, error, result >>

\* processFiles resumes from fetch(file.url_private)
FetchDone(h) ==
    /\ pc[h] = "fetch"
    /\ \E o \in Allowed(h) :
        LET c == IF o = "ok"
                 THEN [pc |-> "buffer", idx |-> idx[h],
                       uploaded |-> uploadedFiles[h], failed |-> failedFiles[h],
                       log |-> Issue(Settle(calls[h], o), "buffer", idx[h])]
                 ELSE FileFailed(h, Settle(calls[h], o))
        IN  /\ faultsLeft' = Spend(o)
            /\ pc' = [pc EXCEPT ![h] = c.pc]
            /\ idx' = [idx EXCEPT ![h] = c.idx]
            /\ uploadedFiles' = [uploadedFiles EXCEPT ![h] = c.uploaded]
            /\ failedFiles' = [failedFiles EXCEPT ![h] = c.failed]
            /\ calls' = [calls EXCEPT ![h] = c.log]
    /\ UNCHANGED << req, cfg, processedMessages, uploadLimit, event, messageTs,
                    fileMessage, reactionAdded, error, result >>

\* processFiles resumes from response.buffer() and hands the upload to
\* uploadLimit: a TypeError if the limiter is undefined; else the upload
\* starts if a slot is free and waits in the queue if none is
BufferDone(h) ==
    /\ pc[h] = "buffer"
    /\ \E o \in Allowed(h) :
        LET log == Settle(calls[h], o)
            c == IF o = "ok" /\ uploadLimit.defined
                 THEN [pc |-> IF HasSlot(uploadLimit) THEN "upload" ELSE "queued",
                       idx |-> idx[h],
                       uploaded |-> uploadedFiles[h], failed |-> failedFiles[h],
                       log |-> IF HasSlot(uploadLimit)
                               THEN Issue(log, "uploadToStorage", idx[h])
                               ELSE log]
                 ELSE FileFailed(h, log)
        IN  /\ faultsLeft' = Spend(o)
            /\ uploadLimit' =
                  IF o = "ok" /\ uploadLimit.defined
                  THEN IF HasSlot(uploadLimit)
                       THEN [uploadLimit EXCEPT !.active = @ \cup {h}]
                       ELSE [uploadLimit EXCEPT !.queue = Append(@, h)]
                  ELSE uploadLimit
            /\ pc' = [pc EXCEPT ![h] = c.pc]
            /\ idx' = [idx EXCEPT ![h] = c.idx]
            /\ uploadedFiles' = [uploadedFiles EXCEPT ![h] = c.uploaded]
            /\ failedFiles' = [failedFiles EXCEPT ![h] = c.failed]
            /\ calls' = [calls EXCEPT ![h] = c.log]
    /\ UNCHANGED << req, cfg, processedMessages, event, messageTs, fileMessage,
                    reactionAdded, error, result >>

\* storage.uploadToStorage settles: the limiter frees the slot and starts the
\* head of its queue; processFiles resumes with the value of the upload
UploadDone(h) ==
    /\ pc[h] = "upload"
    /\ \E o \in Allowed(h) :
        LET q == uploadLimit.queue
            freed == uploadLimit.active \ {h}
            log == Settle(calls[h], o)
            c == IF o # "throws" /\ Truthy(o)
                 THEN LoopFrom(fileMessage[h].files, idx[h] + 1,
                               PushUploaded(uploadedFiles[h], idx[h]),
                               failedFiles[h], log)
                 ELSE FileFailed(h, log)
        IN  /\ faultsLeft' = Spend(o)
            /\ uploadLimit' =
                  IF q = << >>
                  THEN [uploadLimit EXCEPT !.active = freed]
                  ELSE [uploadLimit EXCEPT !.active = freed \cup {Head(q)},
                                           !.queue = Tail(q)]
            /\ pc' = [g \in Handlers |->
                        IF g = h THEN c.pc
                        ELSE IF q # << >> /\ g = Head(q) THEN "upload"
                        ELSE pc[g]]
            /\ calls' = [g \in Handlers |->
                        IF g = h THEN c.log
                        ELSE IF q # << >> /\ g = Head(q)
                             THEN Issue(calls[g], "uploadToStorage", idx[g])
                        ELSE calls[g]]
            /\ idx' = [idx EXCEPT ![h] = c.idx]
            /\ uploadedFiles' = [uploadedFiles EXCEPT ![h] = c.uploaded]
            /\ failedFiles' = [failedFiles EXCEPT ![h] = c.failed]
    /\ UNCHANGED << req, cfg, processedMessages, event, messageTs, fileMessage,
                    reactionAdded, error, result >>

\* sendResultsMessage resumes from chat.postMessage: on success updateReactions
\* starts; a rejection reaches the catch of handleFileUpload and handleError
\* starts (fileMessage && reactionAdded holds there)
PostDone(h) ==
    /\ pc[h] = "post"
    /\ \E o \in Allowed(h) :
        /\ faultsLeft' = Spend(o)
        /\ IF o = "ok"
           THEN /\ pc' = [pc EXCEPT ![h] = "update_remove"]
                /\ error' = error
           ELSE /\ pc' = [pc EXCEPT ![h] = "error_remove"]
                /\ error' = [error EXCEPT ![h] = "PostError"]
        /\ calls' = [calls EXCEPT ![h] =
                Issue(Settle(@, o), "reactions.remove", "beachball")]
    /\ UNCHANGED << req, cfg, processedMessages, uploadLimit, event, messageTs,
                    fileMessage, reactionAdded, idx, uploadedFiles,
                    failedFiles, result >>

\* name: success ? 'white_check_mark' : 'x'
TerminalMarkerAlwaysSuccess(failed) == "white_check_mark"

TerminalMarker(failed) == IF Len(failed) = 0 THEN "white_check_mark" ELSE "x"

\* updateReactions resumes from reactions.remove: a rejection goes to the
\* catch of line 113, past the reactions.add
UpdateRemoveDone(h) ==
    /\ pc[h] = "update_remove"
    /\ \E o \in Allowed(h) :
        /\ faultsLeft' = Spend(o)
        /\ IF o = "ok"
           THEN /\ pc' = [pc EXCEPT ![h] = "update_add"]
                /\ result' = result
                /\ calls' = [calls EXCEPT ![h] =
                        Issue(Settle(@, o), "reactions.add",
                              TerminalMarker(failedFiles[h]))]
           ELSE /\ pc' = [pc EXCEPT ![h] = "done"]
                /\ result' = [result EXCEPT ![h] = "returned"]
                /\ calls' = [calls EXCEPT ![h] = Settle(@, o)]
    /\ UNCHANGED << req, cfg, processedMessages, uploadLimit, event, messageTs,
                    fileMessage, reactionAdded, idx, uploadedFiles,
                    failedFiles, error >>

\* updateReactions resumes from reactions.add; handleFileUpload returns
UpdateAddDone(h) ==
    /\ pc[h] = "update_add"
    /\ \E o \in Allowed(h) :
        /\ faultsLeft' = Spend(o)
        /\ calls' = [calls EXCEPT ![h] = Settle(@, o)]
    /\ pc' = [pc EXCEPT ![h] = "done"]
    /\ result' = [result EXCEPT ![h] = "returned"]
    /\ UNCHANGED << req, cfg, processedMessages, uploadLimit, event, messageTs,
                    fileMessage, reactionAdded, idx, uploadedFiles,
                    failedFiles, error >>

\* handleError resumes from reactions.remove.  Its catch reads
\* cleanupError.data.error: an error with no data field makes that read throw
\* a TypeError, which leaves handleError and handleFileUpload
ErrorRemoveDone(h) ==
    /\ pc[h] = "error_remove"
    /\ \E o \in Allowed(h) :
        /\ faultsLeft' = Spend(o)
        /\ IF o = "no_data"
           THEN /\ pc' = [pc EXCEPT ![h] = "done"]
                /\ result' = [result EXCEPT ![h] = "raised"]
                /\ error' = [error EXCEPT ![h] = "TypeError"]
                /\ calls' = [calls EXCEPT ![h] = Settle(@, o)]
           ELSE /\ pc' = [pc EXCEPT ![h] = "error_add"]
                /\ result' = result
                /\ error' = error
                /\ calls' = [calls EXCEPT ![h] =
                        Issue(Settle(@, o), "reactions.add", "x")]
    /\ UNCHANGED << req, cfg, processedMessages, uploadLimit, event, messageTs,
                    fileMessage, reactionAdded, idx, uploadedFiles,
                    failedFiles >>

\* handleError resumes from reactions.add and returns; throw error
ErrorAddDone(h) ==
    /\ pc[h] = "error_add"
    /\ \E o \in Allowed(h) :
        /\ faultsLeft' = Spend(o)
        /\ calls' = [calls EXCEPT ![h] = Settle(@, o)]
    /\ pc' = [pc EXCEPT ![h] = "done"]
    /\ result' = [result EXCEPT ![h] = "raised"]
    /\ UNCHANGED << req, cfg, processedMessages, uploadLimit, event, messageTs,
                    fileMessage, reactionAdded, idx, uploadedFiles,
                    failedFiles, error >>

(***************************************************************************)
(* The single-URL endpoint of api/upload.js: handleUpload and              *)
(* uploadEndpoint.  An error is modelled by its statusCode, 0 standing     *)
(* for a statusCode that is undefined.                                     *)
(***************************************************************************)
Requests == DOMAIN req

\* statuses a download answers with
DownloadStatuses == {200, 204, 404, 500}

\* response.ok of node-fetch
ResponseOk(status) == status >= 200 /\ status < 300

\* every way storage.uploadToStorage may settle for this caller: a truthy
\* success value, the boolean false, undefined, {success: false}, a throw
StorageResults == {"ok", "false", "undefined", "fail_object", "throws"}

\* if (uploadResult.success === false) throw; reading .success of undefined
\* throws a TypeError
StorageRejected(res) == res \in {"fail_object", "undefined", "throws"}

\* uploadEndpoint, lines 59-69: throw { statusCode, error, success: false }
EndpointError(statusCode) ==
    [statusCode |-> IF statusCode # 0 THEN statusCode ELSE 500,
     success |-> "false"]

\* handleUpload, lines 79-89
HandleUploadCatchAlways500(statusCode) ==
    [status |-> 500, success |-> "false"]

HandleUploadCatch(statusCode) ==
    [status |-> IF statusCode # 0 THEN statusCode ELSE 500,
     success |-> "false"]

\* handleUpload, line 78; the body is the result of uploadEndpoint, which
\* has no success field
HandleUploadOk == [status |-> 200, success |-> "absent"]

NewRequest ==
    [pc |-> "idle", hasBody |-> FALSE, textRes |-> "none",
     fetchRes |-> "none", download |-> 0, bufferRes |-> "none",
     uploads |-> 0, uploadRes |-> "none", outcome |-> "pending",
     response |-> [status |-> 0, success |-> "absent"]]

\* handleUpload returns response
Returned(r, fields, response) ==
    [fields EXCEPT !.pc = "done", !.outcome = "returned",
                   !.response = response]

InitApi ==
    /\ InitWith(0,
                [eventTimes |-> {}, shareTs |-> << >>, faulty |-> {},
                 unlucky |-> {}, fileLists |-> {}, early |-> FALSE],
                0)
    /\ req = [r \in 1..NumRequests |-> NewRequest]

\* handleUpload(req): const url = req.body || await req.text(); with a body,
\* uploadEndpoint starts and awaits fetch(url)
ApiStart(r) ==
    /\ req[r].pc = "idle"
    /\ \E body \in BOOLEAN :
        req' = [req EXCEPT ![r].hasBody = body,
                           ![r].pc = IF body THEN "fetch" ELSE "text"]
    /\ UNCHANGED botVars

\* handleUpload resumes from req.text(): a rejection goes to its catch with
\* an error that has no statusCode
ApiTextDone(r) ==
    /\ req[r].pc = "text"
    /\ \E o \in {"ok", "throws"} :
        LET f == [req[r] EXCEPT !.textRes = o]
        IN  req' = [req EXCEPT ![r] =
                IF o = "ok" THEN [f EXCEPT !.pc = "fetch"]
                ELSE Returned(r, f, HandleUploadCatch(0))]
    /\ UNCHANGED botVars

\* uploadEndpoint resumes from fetch: a response that is not ok is thrown
\* as an error with statusCode = response.status; a transport error has no
\* statusCode
ApiFetchDone(r) ==
    /\ req[r].pc = "fetch"
    /\ \/ \E st \in DownloadStatuses :
            LET f == [req[r] EXCEPT !.download = st,
                        !.fetchRes = IF ResponseOk(st) THEN "ok" ELSE "not_ok"]
            IN  req' = [req EXCEPT ![r] =
                    IF ResponseOk(st) THEN [f EXCEPT !.pc = "buffer"]
                    ELSE Returned(r, f,
                            HandleUploadCatch(EndpointError(st).statusCode))]
       \/ req' = [req EXCEPT ![r] =
                    Returned(r, [req[r] EXCEPT !.fetchRes = "throws"],
                             HandleUploadCatch(EndpointError(0).statusCode))]
    /\ UNCHANGED botVars

\* uploadEndpoint resumes from response.buffer() and calls uploadToStorage
ApiBufferDone(r) ==
    /\ req[r].pc = "buffer"
    /\ \E o \in {"ok", "throws"} :
        LET f == [req[r] EXCEPT !.bufferRes = o]
        IN  req' = [req EXCEPT ![r] =
                IF o = "ok"
                THEN [f EXCEPT !.pc = "upload", !.uploads = @ + 1]
                ELSE Returned(r, f,
                        HandleUploadCatch(EndpointError(0).statusCode))]
    /\ UNCHANGED botVars

\* uploadEndpoint resumes from uploadToStorage and returns or throws;
\* handleUpload returns
ApiUploadDone(r) ==
    /\ req[r].pc = "upload"
    /\ \E o \in StorageResults :
        LET f == [req[r] EXCEPT !.uploadRes = o]
        IN  req' = [req EXCEPT ![r] =
                IF StorageRejected(o)
                THEN Returned(r, f,
                        HandleUploadCatch(EndpointError(0).statusCode))
                ELSE Returned(r, f, HandleUploadOk)]
    /\ UNCHANGED botVars

NextApi ==
    \/ \E r \in Requests : ApiStart(r)
    \/ \E r \in Requests : ApiTextDone(r)
    \/ \E r \in Requests : ApiFetchDone(r)
    \/ \E r \in Requests : ApiBufferDone(r)
    \/ \E r \in Requests : ApiUploadDone(r)

Next ==
    \/ Initialize
    \/ \E h \in Handlers : Start(h)
    \/ \E h \in Handlers : FilesInfoDone(h)
    \/ \E h \in Handlers : HistoryDone(h)
    \/ \E h \in Handlers : AddProcessingDone(h)
    \/ \E h \in Handlers : FetchDone(h)
    \/ \E h \in Handlers : BufferDone(h)
    \/ \E h \in Handlers : UploadDone(h)
    \/ \E h \in Handlers : PostDone(h)
    \/ \E h \in Handlers : UpdateRemoveDone(h)
    \/ \E h \in Handlers : UpdateAddDone(h)
    \/ \E h \in Handlers : ErrorRemoveDone(h)
    \/ \E h \in Handlers : ErrorAddDone(h)

Spec == Init /\ [][Next]_vars

SpecBatch == InitBatch /\ [][Next]_vars

SpecLimiter == InitLimiter /\ [][Next]_vars

SpecApi == InitApi /\ [][NextApi]_vars

(***************************************************************************)
(* Vocabulary of the properties.                                           *)
(***************************************************************************)
Range(seq) == { seq[k] : k \in 1..Len(seq) }

Increasing(seq) == \A j, k \in 1..Len(seq) : j < k => seq[j] < seq[k]

\* positions of the log of h holding a call of api with argument arg
CallsOf(h, api, arg) ==
    { k \in 1..Len(calls[h]) : calls[h][k].api = api /\ calls[h][k].arg = arg }

\* positions of the log of h holding a call of one of these apis
CallsTo(h, apis) == { k \in 1..Len(calls[h]) : calls[h][k].api \in apis }

LookupApis == {"files.info", "conversations.history"}
TransferApis == {"fetch", "buffer", "uploadToStorage"}

\* processFiles has returned to handleFileUpload
ProcessFilesReturned(h) ==
    \/ pc[h] \in {"post", "update_remove", "update_add", "error_remove",
                  "error_add"}
    \/ pc[h] = "done" /\ reactionAdded[h]

\* a File Transfer Unit of h is in flight: download started, upload not over
InFlight(h) == pc[h] \in {"fetch", "buffer", "queued", "upload"}

Uploading == { h \in Handlers : pc[h] = "upload" }

\* findFileMessage of h returned null
LookupFailed(h) ==
    \E k \in CallsTo(h, LookupApis) : calls[h][k].res \notin {"ok", "pending"}

(***************************************************************************)
(* C1: when processFiles returns, every file of the batch has exactly one  *)
(* entry in exactly one of uploadedFiles and failedFiles, so the two       *)
(* lengths add up to the number of files.                                  *)
(***************************************************************************)
C1_OneOutcomePerFile ==
    \A h \in Handlers :
        ProcessFilesReturned(h) =>
            LET all == uploadedFiles[h] \o failedFiles[h]
                n == Len(fileMessage[h].files)
            IN  /\ Len(uploadedFiles[h]) + Len(failedFiles[h]) = n
                /\ \A i \in 1..n :
                    Cardinality({ k \in 1..Len(all) : all[k] = i }) = 1

\* a batch of three files that ended with an oversized file, a file whose
\* transfer threw and an uploaded file
C1_Witness ==
    \E h \in Handlers :
        /\ pc[h] = "done"
        /\ Len(fileMessage[h].files) = 3
        /\ Len(uploadedFiles[h]) = 1
        /\ \E i \in Range(failedFiles[h]) :
            fileMessage[h].files[i].size > MAX_FILE_SIZE
        /\ \E k \in CallsTo(h, TransferApis) : calls[h][k].res = "throws"

(***************************************************************************)
(* C2: of the calls of handleFileUpload whose events resolve to one        *)
(* message ts, at most one ever enters processFiles, however the calls     *)
(* interleave.                                                             *)
(***************************************************************************)
C2_OneAdmissionPerTs ==
    \A h1, h2 \in Handlers :
        (h1 # h2 /\ reactionAdded[h1] /\ reactionAdded[h2])
            => fileMessage[h1].ts # fileMessage[h2].ts

\* two calls resolved the same message while both were running: one is in
\* processFiles, the other was turned away
C2_Witness ==
    \E h1, h2 \in Handlers :
        /\ h1 # h2
        /\ InFlight(h1)
        /\ pc[h2] = "done"
        /\ fileMessage[h2] # NoMsg
        /\ fileMessage[h2].ts = fileMessage[h1].ts
        /\ ~reactionAdded[h2]

(***************************************************************************)
(* C3: a ts put in processedMessages is never removed, and a call of       *)
(* handleFileUpload that resolves its event to a ts already there returns  *)
(* having made no call but the two lookups; a call that has ended makes    *)
(* no further call.                                                        *)
(***************************************************************************)
C3_ProcessedStaysProcessed ==
    [][ /\ processedMessages \subseteq processedMessages'
        /\ \A h \in Handlers :
            /\ (/\ pc[h] = "history"
                /\ pc'[h] # "history"
                /\ fileMessage'[h] # NoMsg
                /\ fileMessage'[h].ts \in processedMessages)
               => /\ pc'[h] = "done"
                  /\ result'[h] = "returned"
                  /\ \A k \in 1..Len(calls'[h]) :
                        calls'[h][k].api \in LookupApis
                  /\ processedMessages' = processedMessages
            /\ pc[h] = "done" => (pc'[h] = "done" /\ calls'[h] = calls[h])
      ]_vars

\* a message whose handling ended with the exception re-raised, and another
\* call for the same message that was turned away after its two lookups
C3_Witness ==
    \E h1, h2 \in Handlers :
        /\ h1 # h2
        /\ pc[h1] = "done" /\ result[h1] = "raised"
        /\ fileMessage[h1].ts \in processedMessages
        /\ pc[h2] = "done" /\ result[h2] = "returned"
        /\ fileMessage[h2] # NoMsg
        /\ fileMessage[h2].ts = fileMessage[h1].ts
        /\ Len(calls[h2]) = 2

(***************************************************************************)
(* C4: the number of File Transfer Units in flight (download started,      *)
(* storage upload not yet finished or failed), over all calls, never       *)
(* exceeds CONCURRENT_UPLOADS.                                             *)
(***************************************************************************)
C4_InFlightWithinCapacity ==
    Cardinality({ h \in Handlers : InFlight(h) }) <= CONCURRENT_UPLOADS

(***************************************************************************)
(* C5: at most CONCURRENT_UPLOADS storage uploads execute at once; the     *)
(* slots held are exactly those of the uploads executing (an upload that   *)
(* failed or threw holds none), and an upload waits only while every slot  *)
(* is held.                                                                *)
(***************************************************************************)
C5_UploadsWithinCapacity ==
    /\ Cardinality(Uploading) <= CONCURRENT_UPLOADS
    /\ uploadLimit.active = Uploading
    /\ Range(uploadLimit.queue) = { h \in Handlers : pc[h] = "queued" }
    /\ uploadLimit.queue # << >> =>
            Cardinality(uploadLimit.active) = CONCURRENT_UPLOADS

\* the upload of one call threw, and with its slot released every slot is
\* held by the uploads of the other calls, none waiting
C5_Witness ==
    \E h \in Handlers :
        /\ \E k \in CallsTo(h, {"uploadToStorage"}) : calls[h][k].res = "throws"
        /\ h \notin uploadLimit.active
        /\ Cardinality(Uploading) = CONCURRENT_UPLOADS
        /\ uploadLimit.queue = << >>
        /\ \A g \in Handlers : g # h => pc[g] = "upload"

(***************************************************************************)
(* C6: a file with size > MAX_FILE_SIZE is never fetched, buffered or      *)
(* uploaded and never enters uploadedFiles; once the loop is past it, it   *)
(* is in failedFiles; and the files after it are still processed, so that  *)
(* when processFiles returns every file that is not oversized was fetched. *)
(***************************************************************************)
C6_OversizedFailsWithoutTransfer ==
    \A h \in Handlers :
        \A i \in 1..Len(fileMessage[h].files) :
            IF fileMessage[h].files[i].size > MAX_FILE_SIZE
            THEN /\ i \notin Range(uploadedFiles[h])
                 /\ \A a \in TransferApis : CallsOf(h, a, i) = {}
                 /\ (reactionAdded[h] /\ idx[h] > i)
                        => i \in Range(failedFiles[h])
            ELSE ProcessFilesReturned(h) => CallsOf(h, "fetch", i) # {}

\* a batch that ended with an oversized first file failed and the file
\* after it uploaded
C6_Witness ==
    \E h \in Handlers :
        /\ pc[h] = "done"
        /\ Len(fileMessage[h].files) >= 2
        /\ fileMessage[h].files[1].size > MAX_FILE_SIZE
        /\ 1 \in Range(failedFiles[h])
        /\ 2 \in Range(uploadedFiles[h])

(***************************************************************************)
(* C7: uploadedFiles and failedFiles each list their files in the order    *)
(* of fileMessage.files.                                                   *)
(***************************************************************************)
C7_OutcomesKeepInputOrder ==
    \A h \in Handlers :
        /\ Increasing(uploadedFiles[h])
        /\ Increasing(failedFiles[h])
        /\ Range(uploadedFiles[h]) \cup Range(failedFiles[h])
                \subseteq 1..Len(fileMessage[h].files)

\* files [A, B, C] where B failed in its transfer and A and C were uploaded
C7_Witness ==
    \E h \in Handlers :
        /\ ProcessFilesReturned(h)
        /\ uploadedFiles[h] = << 1, 3 >>
        /\ failedFiles[h] = << 2 >>
        /\ CallsOf(h, "fetch", 2) # {}

(***************************************************************************)
(* C8: a call whose event_ts is more than 24 hours before the current time *)
(* returns without raising, having made no external call (no lookup, no    *)
(* reaction, no transfer, no message) and leaving processedMessages as it  *)
(* was (empty, with this call the only one).                               *)
(***************************************************************************)
C8_StaleEventDropped ==
    \A h \in Handlers :
        (pc[h] # "idle" /\ Now - event[h].event_ts * 1000 > DAY_MS)
            => /\ pc[h] = "done"
               /\ result[h] = "returned"
               /\ calls[h] = << >>
               /\ fileMessage[h] = NoMsg
               /\ ~reactionAdded[h]
               /\ (Cardinality(Handlers) = 1 => processedMessages = {})

\* the call for an event of 24 hours and one second ago has returned
C8_Witness ==
    \E h \in Handlers :
        /\ pc[h] = "done"
        /\ event[h].event_ts = OldTs
        /\ calls[h] = << >>

(***************************************************************************)
(* C9: when findFileMessage fails (files.info not ok, without a share or   *)
(* throwing; conversations.history not ok, empty or throwing),             *)
(* handleFileUpload returns without raising, having made no call after     *)
(* the failed lookup and leaving processedMessages as it was (empty, with  *)
(* this call the only one).                                                *)
(***************************************************************************)
C9_FailedLookupAborts ==
    \A h \in Handlers :
        LookupFailed(h)
            => /\ pc[h] = "done"
               /\ result[h] = "returned"
               /\ \A k \in 1..Len(calls[h]) : calls[h][k].api \in LookupApis
               /\ calls[h][Len(calls[h])].res \notin {"ok", "pending"}
               /\ ~reactionAdded[h]
               /\ (Cardinality(Handlers) = 1 => processedMessages = {})

\* conversations.history came back empty after files.info had succeeded
C9_Witness ==
    \E h \in Handlers :
        /\ pc[h] = "done"
        /\ Len(calls[h]) = 2
        /\ calls[h][1].res = "ok"
        /\ calls[h][2].api = "conversations.history"
        /\ calls[h][2].res = "empty"

(***************************************************************************)
(* C10: when the exception of sendResultsMessage has been handled, the     *)
(* cleanup has attempted reactions.remove('beachball') exactly once and    *)
(* reactions.add('x') exactly once, whatever the outcome of the remove     *)
(* (also an error without a data field).                                   *)
(***************************************************************************)
C10_CleanupRemovesAndAddsOnce ==
    \A h \in Handlers :
        (pc[h] = "done" /\ error[h] # NoError)
            => /\ Cardinality(CallsOf(h, "reactions.remove", "beachball")) = 1
               /\ Cardinality(CallsOf(h, "reactions.add", "x")) = 1

\* the outcomes of the calls of api with argument arg in the log of h
ResOf(h, api, arg) == { calls[h][k].res : k \in CallsOf(h, api, arg) }

(***************************************************************************)
(* C11: when an exception E has escaped the main path of handleFileUpload  *)
(* (the rejection of chat.postMessage), the call ends rejecting with that  *)
(* same E, whatever the outcomes of the cleanup calls of handleError.      *)
(***************************************************************************)
C11_RejectsWithOriginalError ==
    \A h \in Handlers :
        (pc[h] = "done" /\ ResOf(h, "chat.postMessage", Len(uploadedFiles[h]))
                                = {"throws"})
            => (result[h] = "raised" /\ error[h] = "PostError")

(***************************************************************************)
(* C12: no failure of a single file makes processFiles raise (the only     *)
(* exception a call ever catches is the rejection of chat.postMessage, and *)
(* after a file's failure the loop goes on to the next file or the         *)
(* summary), and a file whose size check, download and storage upload      *)
(* succeeded is in uploadedFiles as soon as its upload has settled,        *)
(* whatever happened to the other files.                                   *)
(***************************************************************************)
C12_FileFailuresAreIsolated ==
    \A h \in Handlers :
        /\ error[h] # NoError =>
                \E k \in CallsTo(h, {"chat.postMessage"}) :
                    calls[h][k].res = "throws"
        /\ (reactionAdded[h] /\ ~ProcessFilesReturned(h)) =>
                (InFlight(h) /\ result[h] = "pending" /\ error[h] = NoError)
        /\ \A i \in 1..Len(fileMessage[h].files) :
            /\ "ok" \in ResOf(h, "uploadToStorage", i)
                    => i \in Range(uploadedFiles[h])
            /\ (i \in Range(failedFiles[h]) /\ i < Len(fileMessage[h].files))
                    => idx[h] > i

\* the second of three files was uploaded after the transfer of the first
\* had thrown, and the third was oversized
C12_Witness ==
    \E h \in Handlers :
        /\ ProcessFilesReturned(h)
        /\ Len(fileMessage[h].files) = 3
        /\ "throws" \in ResOf(h, "fetch", 1)
        /\ "ok" \in ResOf(h, "uploadToStorage", 2)
        /\ uploadedFiles[h] = << 2 >>
        /\ failedFiles[h] = << 1, 3 >>

(***************************************************************************)
(* C13: in updateReactions the removal of 'beachball' and the addition of  *)
(* the terminal marker fail independently: once the call has ended after a *)
(* sent summary, the terminal marker was added (attempted) also when the   *)
(* removal failed, and the call did not raise.                             *)
(***************************************************************************)
C13_TerminalMarkerAddedDespiteRemove ==
    \A h \in Handlers :
        (pc[h] = "done" /\ ResOf(h, "chat.postMessage", Len(uploadedFiles[h]))
                                = {"ok"})
            => /\ result[h] = "returned"
               /\ CallsOf(h, "reactions.add", TerminalMarker(failedFiles[h]))
                    # {}

\* every file of the batch of h that is not oversized has been fetched
AllFetched(h) ==
    \A i \in 1..Len(fileMessage[h].files) :
        fileMessage[h].files[i].size > MAX_FILE_SIZE
            \/ CallsOf(h, "fetch", i) # {}

HasOutcome(h, i) == i \in Range(uploadedFiles[h]) \cup Range(failedFiles[h])

(***************************************************************************)
(* C14: when reactions.add('beachball') has failed, the call goes on: the  *)
(* batch is processed (every file not oversized is transferred), the       *)
(* summary is posted and, the summary sent, the call returns without       *)
(* raising with the terminal marker of the batch outcome added.            *)
(***************************************************************************)
C14_GoesOnWithoutProcessingMarker ==
    \A h \in Handlers :
        ResOf(h, "reactions.add", "beachball") = {"throws"}
            => /\ reactionAdded[h]
               /\ InFlight(h) \/ ProcessFilesReturned(h)
               /\ ProcessFilesReturned(h) =>
                    /\ AllFetched(h)
                    /\ CallsTo(h, {"chat.postMessage"}) # {}
               /\ (pc[h] = "done" /\ ResOf(h, "chat.postMessage",
                                          Len(uploadedFiles[h])) = {"ok"})
                    => /\ result[h] = "returned"
                       /\ CallsOf(h, "reactions.add",
                                  TerminalMarker(failedFiles[h])) # {}

(***************************************************************************)
(* C15: a file handed to the limiter while uploadLimit is still undefined  *)
(* (its download succeeded, no slot was asked for, no upload was started)  *)
(* is never absorbed as a failed file of the batch.                        *)
(***************************************************************************)
C15_UndefinedLimiterFailsFast ==
    \A h \in Handlers :
        \A i \in 1..Len(fileMessage[h].files) :
            ~ /\ ResOf(h, "buffer", i) = {"ok"}
              /\ CallsOf(h, "uploadToStorage", i) = {}
              /\ i \in Range(failedFiles[h])

C17_StepsInOrder ==
    \A h \in Handlers :
        LET log == calls[h]
            posts == CallsTo(h, {"chat.postMessage"})
        IN  /\ \A k \in 1..Len(log) :
                /\ (log[k].api = "reactions.add" /\ log[k].arg = "beachball")
                    => fileMessage[h].ts \in processedMessages
                /\ log[k].api = "fetch"
                    => \E j \in 1..(k - 1) :
                        /\ log[j].api = "reactions.add"
                        /\ log[j].arg = "beachball"
                        /\ log[j].res # "pending"
                /\ log[k].api = "reactions.remove"
                    => (k - 1 \in posts /\
                        log[k - 1].res = IF error[h] = NoError THEN "ok"
                                         ELSE "throws")
                /\ (log[k].api = "reactions.add" /\ log[k].arg # "beachball")
                    => (k > 1 /\ log[k - 1].api = "reactions.remove")
            /\ posts # {} =>
                    \A i \in 1..Len(fileMessage[h].files) : HasOutcome(h, i)
            /\ Cardinality(posts) <= 1
            /\ pc[h] \in {"update_remove", "update_add"} =>
                    \E k \in posts : log[k].res = "ok"
            /\ (pc[h] = "done" /\ reactionAdded[h]) => Cardinality(posts) = 1

\* a batch with an uploaded and a failed file, handled to its end
C17_Witness ==
    \E h \in Handlers :
        /\ pc[h] = "done"
        /\ result[h] = "returned"
        /\ Len(uploadedFiles[h]) >= 1
        /\ Len(failedFiles[h]) >= 1
        /\ CallsOf(h, "reactions.add", "x") # {}

(***************************************************************************)
(* C18: a file is in uploadedFiles only if its download returned ok and    *)
(* its storage upload reported success; a file whose download returned a   *)
(* non-ok status or threw, or whose storage upload signalled a failure or  *)
(* threw, is never in uploadedFiles and, once the loop is past it, is in   *)
(* failedFiles.                                                            *)
(***************************************************************************)
C18_LinkOnlyForStoredFile ==
    \A h \in Handlers :
        \A i \in 1..Len(fileMessage[h].files) :
            LET bad == (ResOf(h, "fetch", i) \cup ResOf(h, "buffer", i)
                            \cup ResOf(h, "uploadToStorage", i))
                        \ {"ok", "pending"}
            IN  /\ i \in Range(uploadedFiles[h]) =>
                    /\ ResOf(h, "fetch", i) = {"ok"}
                    /\ ResOf(h, "uploadToStorage", i) = {"ok"}
                /\ bad # {} =>
                    /\ i \notin Range(uploadedFiles[h])
                    /\ i \in Range(failedFiles[h])

(***************************************************************************)
(* C19: a call adds at most one terminal marker: 'white_check_mark' only   *)
(* after a sent summary of a batch without failed files (an empty batch    *)
(* included), 'x' only for a batch with a failed file or after the         *)
(* exception that aborted the handling; never both.                        *)
(***************************************************************************)
C19_OneTerminalMarker ==
    \A h \in Handlers :
        LET checks == CallsOf(h, "reactions.add", "white_check_mark")
            xs == CallsOf(h, "reactions.add", "x")
        IN  /\ Cardinality(checks) + Cardinality(xs) <= 1
            /\ checks # {} =>
                /\ Len(failedFiles[h]) = 0
                /\ error[h] = NoError
                /\ \E k \in CallsTo(h, {"chat.postMessage"}) :
                        calls[h][k].res = "ok"
            /\ xs # {} => (Len(failedFiles[h]) > 0 \/ error[h] # NoError)
            /\ (xs # {} /\ error[h] = NoError) =>
                    \E k \in CallsTo(h, {"chat.postMessage"}) :
                        calls[h][k].res = "ok"

\* the handling of a message without files has ended with the success
\* marker added
C19_Witness ==
    \E h \in Handlers :
        /\ pc[h] = "done"
        /\ reactionAdded[h]
        /\ fileMessage[h].files = << >>
        /\ ResOf(h, "reactions.add", "white_check_mark") = {"ok"}

(***************************************************************************)
(* C20: handleUpload never rejects; it returns status 200 only when the    *)
(* download returned ok and the storage upload did not report              *)
(* success === false; for a download that returned the non-ok status S no  *)
(* storage upload is attempted and it returns status S with                *)
(* body.success = false; every other failure (req.text(), a transport      *)
(* error, response.buffer(), a storage upload that throws or reports       *)
(* success === false) gives status 500 with body.success = false.          *)
(***************************************************************************)
C20_HandleUploadAlwaysAnswers ==
    \A r \in Requests :
        LET q == req[r]
            failed == \/ "throws" \in {q.textRes, q.fetchRes, q.bufferRes,
                                       q.uploadRes}
                      \/ q.uploadRes = "fail_object"
        IN  /\ q.outcome # "rejected"
            /\ q.pc = "done" =>
                /\ q.outcome = "returned"
                /\ q.response.status = 200 =>
                    /\ q.fetchRes = "ok"
                    /\ q.download >= 200 /\ q.download < 300
                    /\ q.uploadRes \notin {"fail_object", "throws", "none"}
                /\ q.fetchRes = "not_ok" =>
                    /\ q.uploads = 0
                    /\ q.response.status = q.download
                    /\ q.response.success = "false"
                /\ failed =>
                    /\ q.response.status = 500
                    /\ q.response.success = "false"
            /\ (q.fetchRes # "ok" \/ q.bufferRes # "ok") => q.uploads = 0

\* a download answered 404: the request was answered 404 and nothing stored
C20_Witness ==
    \E r \in Requests :
        /\ req[r].pc = "done"
        /\ req[r].download = 404
        /\ req[r].response.status = 404
        /\ req[r].uploads = 0

====
